---------------------------- MODULE Spec2Model ----------------------------
(***************************************************************************)
(* A model of docx-plainify: the DOCX -> structured-blocks converter       *)
(* (docx_plainify/converter.py), the nested list builder                   *)
(* (docx_plainify/list_processor.py) and the image description step        *)
(* (docx_plainify/image_processor.py).                                     *)
(*                                                                         *)
(* A Python str is a sequence of one-character strings; None is the        *)
(* record None; a dict is a record or a function from its keys.            *)
(***************************************************************************)
EXTENDS Integers, Sequences, FiniteSets, TLC

VARIABLES
    pc,               \* position of the running function
    text,             \* _clean_list_text: the argument
    cleaned,          \* _clean_list_text(text)
    recleaned,        \* _clean_list_text(cleaned)
    style_name,       \* _get_heading_level: the argument
    level,            \* _get_heading_level(style_name)
    elements,         \* _merge_consecutive_lists: the argument;
                      \* _convert_document: the list of blocks being built
    merge_result,     \* _merge_consecutive_lists(elements)
    table_arg,        \* _convert_table: the argument
    table_block,      \* _convert_table(table_arg)
    cell_arg,         \* _process_cell_content: the argument
    cell_content,     \* _process_cell_content(cell_arg)
    body,             \* _convert_document: doc.element.body
    idx,              \* _convert_document: the body element the loop is at
    describe_images,  \* DocxToYamlConverter.describe_images
    llm_configured,   \* whether ImageProcessor.llm is set
    rels,             \* doc.part.rels.values()
    ridx,             \* _process_images: the relation the loop is at
    image_elements,   \* _process_images: the image blocks built
    describe_calls,   \* the relations describe_image was called for, in order
    paragraphs,       \* _convert_list_group: the argument
    pidx,             \* _convert_list_group: the paragraph the loop is at
    lists,            \* the list objects of the tree: lists[0] is the first
                      \* items list, lists[i] is the "children" of the item of
                      \* paragraph i; each holds the paragraphs of its items
    items,            \* _convert_list_group: the list that items refers to
    current_level,    \* _convert_list_group: current_level
    level_stack,      \* _convert_list_group: the lists pushed, oldest first
    level_arg,        \* _get_list_level: the argument
    list_level,       \* _get_list_level(level_arg)
    argv,             \* main: the command line click parses
    environ,          \* os.environ: which Azure OpenAI variables are set
    raising,          \* which steps of convert_file raise for this input
    converter,        \* main: the DocxToYamlConverter constructed
    exit_code,        \* the exit code of the process, None while it runs
    err_stream,       \* what click.echo wrote with err=True
    out_stream        \* what click.echo wrote to the standard output

cleanVars == <<text, cleaned, recleaned>>
headingVars == <<style_name, level>>
mergeVars == <<elements, merge_result>>
tableVars == <<table_arg, table_block, cell_arg, cell_content>>
docVars == <<body, idx, describe_images, llm_configured, rels, ridx,
             image_elements, describe_calls>>
groupVars == <<paragraphs, pidx, lists, items, current_level, level_stack>>
levelVars == <<level_arg, list_level>>
cliVars == <<argv, environ, raising, converter, exit_code, err_stream, out_stream>>
vars == <<pc, text, cleaned, recleaned, style_name, level, elements,
          merge_result, table_arg, table_block, cell_arg, cell_content, body,
          idx, describe_images, llm_configured, rels, ridx, image_elements,
          describe_calls, paragraphs, pidx, lists, items, current_level,
          level_stack, level_arg, list_level, argv, environ, raising,
          converter, exit_code, err_stream, out_stream>>

(***************************************************************************)
(* Bounds of the model.                                                    *)
(***************************************************************************)
MaxTextLen == 5
MaxSuffixLen == 3
MaxHeadingNumber == 12
MaxElements == 4
MaxCells == 2
MaxDataRows == 1
MaxCellParagraphs == 3
MaxBody == 2
MaxRels == 3
MaxGroup == 4
MaxIlvl == 2
MaxRunBody == 3
MaxMarkerLen == 3
MaxIndent == 8

(***************************************************************************)
(* Python values and str methods.                                          *)
(***************************************************************************)
None == [none |-> TRUE]

SeqsUpTo(S, n) == UNION {[1..k -> S] : k \in 0..n}

Drop(s, n) == SubSeq(s, n + 1, Len(s))

\* the characters str.strip(), str.split() and the regex class \s treat as space
Whitespace == {" ", "\n", "\t"}

\* the number of leading characters of s that are in class
RECURSIVE LeadingIn(_, _)
LeadingIn(s, class) ==
    IF s # <<>> /\ Head(s) \in class THEN 1 + LeadingIn(Tail(s), class) ELSE 0

RECURSIVE TrailingIn(_, _)
TrailingIn(s, class) ==
    IF s # <<>> /\ s[Len(s)] \in class
    THEN 1 + TrailingIn(SubSeq(s, 1, Len(s) - 1), class)
    ELSE 0

lstrip(s) == Drop(s, LeadingIn(s, Whitespace))

rstrip(s) == SubSeq(s, 1, Len(s) - TrailingIn(s, Whitespace))

strip(s) == rstrip(lstrip(s))

startswith(s, prefix) ==
    Len(prefix) <= Len(s) /\ SubSeq(s, 1, Len(prefix)) = prefix

\* str.split(): the maximal runs of non-whitespace characters, in order
RECURSIVE split(_)
split(s) ==
    LET t == lstrip(s)
        n == LeadingIn(t, UNION {{t[i]} : i \in 1..Len(t)} \ Whitespace)
    IN  IF t = <<>> THEN <<>> ELSE <<SubSeq(t, 1, n)>> \o split(Drop(t, n))

(***************************************************************************)
(* The character classes of the marker patterns.                           *)
(***************************************************************************)
\* [•◦▪▫‣⁃\-\*\+]; the six glyphs are written by their code points
BulletClass == {"U+2022", "U+25E6", "U+25AA", "U+25AB", "U+2023", "U+2043",
                "-", "*", "+"}

DigitClass == {"0", "1", "2", "3", "4", "5", "6", "7", "8", "9"}

LowerClass == {"a", "b", "c", "d", "e", "f", "g", "h", "i", "j", "k", "l", "m",
               "n", "o", "p", "q", "r", "s", "t", "u", "v", "w", "x", "y", "z"}

UpperClass == {"A", "B", "C", "D", "E", "F", "G", "H", "I", "J", "K", "L", "M",
               "N", "O", "P", "Q", "R", "S", "T", "U", "V", "W", "X", "Y", "Z"}

LetterClass == LowerClass \cup UpperClass

\* [ivxlcdm] under re.IGNORECASE
RomanClass == {"i", "v", "x", "l", "c", "d", "m", "I", "V", "X", "L", "C", "D", "M"}

\* [\.\)]
CloserClass == {".", ")"}

\* re.sub(r'^<class><closer>?\s*', '', s): s without the match at its start,
\* s itself when the pattern does not match there
SubBullet(s) ==
    IF s # <<>> /\ Head(s) \in BulletClass
    THEN Drop(s, 1 + LeadingIn(Tail(s), Whitespace))
    ELSE s

\* ^<class>+[\.\)]\s* : the run of class characters is greedy and the closer is
\* in no class, so the match is the whole run, one closer, the spaces after it
SubRun(s, class) ==
    LET n == LeadingIn(s, class)
    IN  IF n >= 1 /\ n < Len(s) /\ s[n + 1] \in CloserClass
        THEN Drop(s, n + 1 + LeadingIn(Drop(s, n + 1), Whitespace))
        ELSE s

\* ^[a-zA-Z][\.\)]\s*
SubLetter(s) ==
    IF Len(s) >= 2 /\ s[1] \in LetterClass /\ s[2] \in CloserClass
    THEN Drop(s, 2 + LeadingIn(Drop(s, 2), Whitespace))
    ELSE s

\* DocxToYamlConverter._clean_list_text: the four substitutions one after the
\* other, each on the result of the one before, then strip()
clean_list_text(t) ==
    strip(SubRun(SubLetter(SubRun(SubBullet(t), DigitClass)), RomanClass))

(***************************************************************************)
(* DocxToYamlConverter._get_heading_level                                  *)
(***************************************************************************)
DigitValue(c) ==
    CASE c = "0" -> 0 [] c = "1" -> 1 [] c = "2" -> 2 [] c = "3" -> 3
      [] c = "4" -> 4 [] c = "5" -> 5 [] c = "6" -> 6 [] c = "7" -> 7
      [] c = "8" -> 8 [] c = "9" -> 9

\* the value of a run of digits and underscores, underscores skipped
RECURSIVE DigitsValue(_, _)
DigitsValue(s, acc) ==
    IF s = <<>> THEN acc
    ELSE IF Head(s) = "_" THEN DigitsValue(Tail(s), acc)
    ELSE DigitsValue(Tail(s), 10 * acc + DigitValue(Head(s)))

\* int(tok) for a token without whitespace: an optional sign, then decimal
\* digits, single underscores allowed between digits; anything else raises
\* ValueError
int(tok) ==
    LET signed == tok # <<>> /\ Head(tok) \in {"+", "-"}
        digits == IF signed THEN Tail(tok) ELSE tok
        wellFormed ==
            /\ digits # <<>>
            /\ \A i \in 1..Len(digits) : digits[i] \in DigitClass \cup {"_"}
            /\ digits[1] # "_"
            /\ digits[Len(digits)] # "_"
            /\ \A i \in 1..(Len(digits) - 1) : ~(digits[i] = "_" /\ digits[i + 1] = "_")
        magnitude == DigitsValue(digits, 0)
    IN  IF ~wellFormed THEN [raises |-> "ValueError"]
        ELSE [raises |-> "no",
              value |-> IF signed /\ Head(tok) = "-" THEN 0 - magnitude ELSE magnitude]

\* a mutant of get_heading_level: the first token is read, not the last
get_heading_level_first_token(name) ==
    LET tokens == split(name)
    IN  IF tokens = <<>> THEN 1
        ELSE IF int(tokens[1]).raises # "no" THEN 1
        ELSE int(tokens[1]).value

\* try: return int(style_name.split()[-1])
\* except (ValueError, IndexError): return 1
get_heading_level(name) ==
    LET tokens == split(name)
    IN  IF tokens = <<>> THEN 1                             \* IndexError
        ELSE IF int(tokens[Len(tokens)]).raises # "no" THEN 1  \* ValueError
        ELSE int(tokens[Len(tokens)]).value

(***************************************************************************)
(* Blocks, the dicts the converter produces.                               *)
(***************************************************************************)
HeadingBlock(t, l) == [type |-> "heading", text |-> t, level |-> l]

ParagraphBlock(t) == [type |-> "paragraph", text |-> t]

ListBlock(its) == [type |-> "list", items |-> its]

TableBlock(rs) == [type |-> "table", rows |-> rs]

ImageBlock(n, d) == [type |-> "image", name |-> n, description |-> d]

\* bool(x) for a str or a list
Truthy(x) == x # <<>>

(***************************************************************************)
(* DocxToYamlConverter._merge_consecutive_lists                            *)
(***************************************************************************)
\* the for loop over the elements not yet seen, then the flush after it
RECURSIVE MergeLoop(_, _, _)
MergeLoop(rest, merged, current_list) ==
    IF rest = <<>>
    THEN IF current_list # None THEN Append(merged, current_list) ELSE merged
    ELSE LET element == Head(rest)
         IN  IF element.type = "list"
             THEN IF current_list = None
                  THEN MergeLoop(Tail(rest), merged, ListBlock(element.items))
                  ELSE MergeLoop(Tail(rest), merged,
                                 ListBlock(current_list.items \o element.items))
             ELSE IF current_list # None
                  THEN MergeLoop(Tail(rest),
                                 Append(Append(merged, current_list), element), None)
                  ELSE MergeLoop(Tail(rest), Append(merged, element), None)

\* a mutant of merge_consecutive_lists: the list still open when the loop ends
\* is not appended
merge_consecutive_lists_no_last_flush(elems) ==
    LET m == MergeLoop(elems, <<>>, None)
    IN  IF elems # <<>> /\ elems[Len(elems)].type = "list"
        THEN SubSeq(m, 1, Len(m) - 1)
        ELSE m

merge_consecutive_lists(elems) ==
    IF elems = <<>> THEN elems ELSE MergeLoop(elems, <<>>, None)

HeadingWord == <<"H", "e", "a", "d", "i", "n", "g">>

NormalWord == <<"N", "o", "r", "m", "a", "l">>

(***************************************************************************)
(* Paragraphs.  A paragraph is [text, style, numPr]: paragraph.text,       *)
(* paragraph.style.name and whether paragraph._element.pPr.numPr exists.   *)
(***************************************************************************)
\* the prefixes of text.startswith((...)) in _is_list_paragraph
ConverterListPrefixes ==
    {<<"U+2022">>, <<"-">>, <<"*">>, <<"1", ".">>, <<"2", ".">>, <<"3", ".">>,
     <<"4", ".">>, <<"5", ".">>}

\* DocxToYamlConverter._is_list_paragraph
is_list_paragraph(p) ==
    \/ p.numPr
    \/ \E prefix \in ConverterListPrefixes : startswith(strip(p.text), prefix)

\* DocxToYamlConverter._convert_list_item
convert_list_item(p) ==
    IF strip(p.text) = <<>> THEN None
    ELSE ListBlock(<<[text |-> clean_list_text(strip(p.text))]>>)

\* a mutant of convert_paragraph: the list check comes before the empty check
convert_paragraph_list_check_first(p) ==
    IF is_list_paragraph(p)
    THEN ListBlock(<<[text |-> clean_list_text(strip(p.text))]>>)
    ELSE IF strip(p.text) = <<>> THEN None
    ELSE IF startswith(p.style, HeadingWord)
    THEN HeadingBlock(strip(p.text), get_heading_level(p.style))
    ELSE ParagraphBlock(strip(p.text))

\* DocxToYamlConverter._convert_paragraph
convert_paragraph(p) ==
    IF strip(p.text) = <<>> THEN None
    ELSE IF startswith(p.style, HeadingWord)
    THEN HeadingBlock(strip(p.text), get_heading_level(p.style))
    ELSE IF is_list_paragraph(p) THEN convert_list_item(p)
    ELSE ParagraphBlock(strip(p.text))

(***************************************************************************)
(* Tables.  A table is the sequence of its rows, a row the sequence of its *)
(* cells, a cell the sequence of its paragraphs.  A cell value is a str or *)
(* a list of blocks: [str |-> s] or [blocks |-> bs].                       *)
(***************************************************************************)
\* cell.text: "\n".join(p.text for p in cell.paragraphs)
RECURSIVE JoinLines(_)
JoinLines(ps) ==
    IF ps = <<>> THEN <<>>
    ELSE IF Len(ps) = 1 THEN ps[1].text
    ELSE ps[1].text \o <<"\n">> \o JoinLines(Tail(ps))

cell_text(cell) == JoinLines(cell)

\* the loop of _process_cell_content over the paragraphs of a cell
RECURSIVE CellContentLoop(_, _)
CellContentLoop(paras, content) ==
    IF paras = <<>> THEN content
    ELSE LET para == Head(paras)
         IN  IF strip(para.text) # <<>>
             THEN IF is_list_paragraph(para)
                  THEN IF convert_list_item(para) # None
                       THEN CellContentLoop(Tail(paras),
                                            Append(content, convert_list_item(para)))
                       ELSE CellContentLoop(Tail(paras), content)
                  ELSE CellContentLoop(Tail(paras),
                                       Append(content, ParagraphBlock(strip(para.text))))
             ELSE CellContentLoop(Tail(paras), content)

\* DocxToYamlConverter._process_cell_content
process_cell_content(cell) ==
    LET txt == strip(cell_text(cell))
        content == CellContentLoop(cell, <<>>)
    IN  IF Len(cell) > 1
        THEN IF content # <<>> THEN [blocks |-> content] ELSE [str |-> txt]
        ELSE [str |-> txt]

\* bool(v) for a cell value
TruthyValue(v) == IF "str" \in DOMAIN v THEN Truthy(v.str) ELSE Truthy(v.blocks)

EmptyDict == [k \in {} |-> None]

\* d[k] = v
DictSet(d, k, v) == [x \in DOMAIN d \cup {k} |-> IF x = k THEN v ELSE d[x]]

\* for i, cell in enumerate(row.cells): if i < len(headers): row_data[...] = ...
\* (i counts from 1 here)
RECURSIVE RowLoop(_, _, _, _)
RowLoop(cells, headers, i, row_data) ==
    IF i > Len(cells) THEN row_data
    ELSE IF i <= Len(headers)
    THEN RowLoop(cells, headers, i + 1,
                 DictSet(row_data, headers[i], process_cell_content(cells[i])))
    ELSE RowLoop(cells, headers, i + 1, row_data)

convert_row(cells, headers) == RowLoop(cells, headers, 1, EmptyDict)

\* headers.append(cell.text.strip()) for the cells of the first row
table_headers(table) == [i \in 1..Len(table[1]) |-> strip(cell_text(table[1][i]))]

\* any(row_data.values())
any_value(row_data) == \E k \in DOMAIN row_data : TruthyValue(row_data[k])

\* the loop over table.rows[1:]
RECURSIVE DataRowsLoop(_, _, _)
DataRowsLoop(data_rows, headers, rows) ==
    IF data_rows = <<>> THEN rows
    ELSE LET row_data == convert_row(Head(data_rows), headers)
         IN  DataRowsLoop(Tail(data_rows), headers,
                          IF any_value(row_data) THEN Append(rows, row_data) ELSE rows)

\* DocxToYamlConverter._convert_table
convert_table(table) ==
    IF table = <<>> THEN None
    ELSE IF ~(\E i \in 1..Len(table[1]) : Truthy(table_headers(table)[i])) THEN None
    ELSE TableBlock(DataRowsLoop(Tail(table), table_headers(table), <<>>))

(***************************************************************************)
(* ListProcessor.  A list paragraph is [text, style, numPr, ilvl]: ilvl is *)
(* numPr.ilvl, [val |-> n] or None when the numbering has no ilvl.         *)
(***************************************************************************)
\* ListProcessor._clean_list_text: the same four substitutions and strip()
ListProcessor_clean_list_text(t) ==
    strip(SubRun(SubLetter(SubRun(SubBullet(t), DigitClass)), RomanClass))

Max(a, b) == IF a >= b THEN a ELSE b

\* ListProcessor._get_list_level
get_list_level(p) ==
    IF p.numPr /\ p.ilvl # None THEN p.ilvl.val
    ELSE Max(0, (Len(p.text) - Len(lstrip(p.text))) \div 4)

Last(s) == s[Len(s)]

Front(s) == SubSeq(s, 1, Len(s) - 1)

\* a mutant of pop_levels: one list is popped, as with "if" for "while"
pop_levels_once(st, lvl) ==
    IF st.level_stack # <<>> /\ lvl < st.current_level
    THEN [items |-> Last(st.level_stack),
          level_stack |-> Front(st.level_stack),
          current_level |-> st.current_level - 1]
    ELSE st

\* a mutant of pop_levels: one list is popped and current_level is set to the
\* level of the item
pop_levels_once_to_level(st, lvl) ==
    IF st.level_stack # <<>> /\ lvl < st.current_level
    THEN [items |-> Last(st.level_stack),
          level_stack |-> Front(st.level_stack),
          current_level |-> lvl]
    ELSE st

\* while level_stack and level < current_level:
\*     items = level_stack.pop(); current_level -= 1
RECURSIVE pop_levels(_, _)
pop_levels(st, lvl) ==
    IF st.level_stack # <<>> /\ lvl < st.current_level
    THEN pop_levels([items |-> Last(st.level_stack),
                     level_stack |-> Front(st.level_stack),
                     current_level |-> st.current_level - 1], lvl)
    ELSE st

\* re.match(r'^<class>+<closer>', s)
MatchRun(s, class, closer) ==
    LET n == LeadingIn(s, class)
    IN  n >= 1 /\ n < Len(s) /\ s[n + 1] = closer

\* ListProcessor._is_list_paragraph.  RomanClass holds both cases of the
\* letters, so matching it is matching [ivxlcdm] on text.lower().
ListProcessor_is_list_paragraph(p) ==
    \/ p.numPr
    \/ LET stripped == strip(p.text)
       IN  \/ \E indicator \in BulletClass : startswith(stripped, <<indicator>>)
           \/ MatchRun(stripped, DigitClass, ".")
           \/ MatchRun(stripped, DigitClass, ")")
           \/ Len(stripped) >= 2 /\ stripped[1] \in LetterClass /\ stripped[2] = "."
           \/ Len(stripped) >= 2 /\ stripped[1] \in LetterClass /\ stripped[2] = ")"
           \/ MatchRun(stripped, RomanClass, ".")
           \/ MatchRun(stripped, RomanClass, ")")

(***************************************************************************)
(* The command line (docx_plainify/cli.py).                                 *)
(***************************************************************************)
\* str.lower on the letters a file suffix is written with here
lower(s) ==
    [i \in 1..Len(s) |->
        CASE s[i] = "D" -> "d"
          [] s[i] = "O" -> "o"
          [] s[i] = "C" -> "c"
          [] s[i] = "X" -> "x"
          [] OTHER -> s[i]]

DocxSuffix == <<".", "d", "o", "c", "x">>

YamlSuffix == <<".", "y", "a", "m", "l">>

\* input_file.with_suffix('.yaml')
with_suffix(file, suffix) == [file EXCEPT !.suffix = suffix]

AzureVariables ==
    {"AZURE_OPENAI_ENDPOINT", "AZURE_OPENAI_DEPLOYMENT_NAME",
     "AZURE_OPENAI_API_VERSION"}

\* a mutant of convert_file: the exception is logged and not raised again
convert_file_swallowing(r) == None

\* convert_file: Document(input_path), _convert_document and _write_yaml in
\* one try; except Exception: log it and raise.  The value is the exception
\* that leaves convert_file, None when it returns.
convert_file(r) ==
    IF r.load THEN [exception |-> "Document"]
    ELSE IF r.convert THEN [exception |-> "_convert_document"]
    ELSE IF r.write THEN [exception |-> "_write_yaml"]
    ELSE None

\* except Exception as e: click.echo(f"Error: {str(e)}", err=True)
ErrorEcho(e) == <<"Error", e>>

\* click's report of a UsageError, written to the error stream
UsageEcho(e) == <<"Usage", e>>

(***************************************************************************)
(* Inputs.                                                                 *)
(***************************************************************************)
\* one character of each class the patterns tell apart: a bullet, a digit, a
\* letter that is no roman numeral, a roman numeral letter, a closer, a space
TextAlphabet == {"-", "1", "a", "i", ".", " "}

Texts == SeqsUpTo(TextAlphabet, MaxTextLen)

\* str(k) for k >= 0
RECURSIVE Decimal(_)
Decimal(k) ==
    LET d == CHOOSE c \in DigitClass : DigitValue(c) = k % 10
    IN  IF k < 10 THEN <<d>> ELSE Decimal(k \div 10) \o <<d>>

SuffixAlphabet == {"0", "2", "_", "-", "x", " "}

\* "Heading k", and a style word followed by any short suffix
StyleNames ==
    {HeadingWord \o <<" ">> \o Decimal(k) : k \in 1..MaxHeadingNumber}
    \cup {w \o s : w \in {<<>>, HeadingWord, NormalWord},
                   s \in SeqsUpTo(SuffixAlphabet, MaxSuffixLen)}

Idle == <<>>

\* the variables of the functions a specification does not run
IdleClean == text = Idle /\ cleaned = Idle /\ recleaned = Idle

IdleHeading == style_name = Idle /\ level = 0

IdleMerge == elements = Idle /\ merge_result = Idle

IdleTable ==
    table_arg = Idle /\ table_block = Idle /\ cell_arg = Idle /\ cell_content = Idle

IdleDoc ==
    /\ body = Idle
    /\ idx = 0
    /\ describe_images = FALSE
    /\ llm_configured = FALSE
    /\ rels = Idle
    /\ ridx = 0
    /\ image_elements = Idle
    /\ describe_calls = Idle

IdleGroup ==
    /\ paragraphs = Idle
    /\ pidx = 0
    /\ lists = Idle
    /\ items = 0
    /\ current_level = 0
    /\ level_stack = Idle

IdleLevel == level_arg = Idle /\ list_level = 0

IdleCli ==
    /\ argv = Idle
    /\ environ = Idle
    /\ raising = Idle
    /\ converter = Idle
    /\ exit_code = Idle
    /\ err_stream = Idle
    /\ out_stream = Idle

(***************************************************************************)
(* _clean_list_text applied to a text, and again to its own result.        *)
(***************************************************************************)
InitClean ==
    /\ pc = "clean"
    /\ text \in Texts
    /\ cleaned = Idle
    /\ recleaned = Idle
    /\ IdleHeading
    /\ IdleMerge
    /\ IdleTable
    /\ IdleDoc
    /\ IdleGroup
    /\ IdleLevel
    /\ IdleCli

CleanListText ==
    /\ pc = "clean"
    /\ cleaned' = clean_list_text(text)
    /\ pc' = "clean_again"
    /\ UNCHANGED <<text, recleaned, headingVars, mergeVars, tableVars, docVars, groupVars, levelVars, cliVars>>

CleanListTextAgain ==
    /\ pc = "clean_again"
    /\ recleaned' = clean_list_text(cleaned)
    /\ pc' = "cleaned_twice"
    /\ UNCHANGED <<text, cleaned, headingVars, mergeVars, tableVars, docVars, groupVars, levelVars, cliVars>>

NextClean == CleanListText \/ CleanListTextAgain

SpecClean == InitClean /\ [][NextClean]_vars

(***************************************************************************)
(* _get_heading_level applied to a style name.                             *)
(***************************************************************************)
InitHeading ==
    /\ pc = "heading_level"
    /\ style_name \in StyleNames
    /\ level = 0
    /\ IdleClean
    /\ IdleMerge
    /\ IdleTable
    /\ IdleDoc
    /\ IdleGroup
    /\ IdleLevel
    /\ IdleCli

GetHeadingLevel ==
    /\ pc = "heading_level"
    /\ level' = get_heading_level(style_name)
    /\ pc' = "returned"
    /\ UNCHANGED <<style_name, cleanVars, mergeVars, tableVars, docVars, groupVars, levelVars, cliVars>>

NextHeading == GetHeadingLevel

SpecHeading == InitHeading /\ [][NextHeading]_vars

(***************************************************************************)
(* _merge_consecutive_lists applied to a sequence of blocks.               *)
(***************************************************************************)
ItemA == [text |-> <<"a">>]

ItemB == [text |-> <<"b">>]

MergeBlocks ==
    {ListBlock(<<ItemA>>), ListBlock(<<ItemB>>), ListBlock(<<ItemA, ItemB>>),
     ListBlock(<<>>), ParagraphBlock(<<"t">>), HeadingBlock(<<"t">>, 1)}

InitMerge ==
    /\ pc = "merge"
    /\ elements \in SeqsUpTo(MergeBlocks, MaxElements)
    /\ merge_result = Idle
    /\ IdleClean
    /\ IdleHeading
    /\ IdleTable
    /\ IdleDoc
    /\ IdleGroup
    /\ IdleLevel
    /\ IdleCli

MergeConsecutiveLists ==
    /\ pc = "merge"
    /\ merge_result' = merge_consecutive_lists(elements)
    /\ pc' = "merged"
    /\ UNCHANGED <<elements, cleanVars, headingVars, tableVars, docVars, groupVars, levelVars, cliVars>>

NextMerge == MergeConsecutiveLists

SpecMerge == InitMerge /\ [][NextMerge]_vars

(***************************************************************************)
(* _convert_table applied to a table.                                      *)
(***************************************************************************)
CellParagraph(t, n) == [text |-> t, style |-> NormalWord, numPr |-> n]

\* cells of one paragraph (empty, "A", "B") and of two paragraphs: one of them
\* empty, both with text (the second a dash item), both empty
CellSamples ==
    {<<CellParagraph(<<>>, FALSE)>>,
     <<CellParagraph(<<"A">>, FALSE)>>,
     <<CellParagraph(<<" ", "B">>, FALSE)>>,
     <<CellParagraph(<<"A">>, FALSE), CellParagraph(<<>>, FALSE)>>,
     <<CellParagraph(<<"A">>, FALSE), CellParagraph(<<"-", " ", "B">>, FALSE)>>,
     <<CellParagraph(<<>>, FALSE), CellParagraph(<<" ">>, FALSE)>>}

RowsOfCells(least) == UNION {[1..k -> CellSamples] : k \in least..MaxCells}

Tables ==
    {<<>>} \cup {<<h>> \o rs : h \in RowsOfCells(1),
                                rs \in SeqsUpTo(RowsOfCells(0), MaxDataRows)}

InitTable ==
    /\ pc = "convert_table"
    /\ table_arg \in Tables
    /\ table_block = Idle
    /\ cell_arg = Idle
    /\ cell_content = Idle
    /\ IdleClean
    /\ IdleHeading
    /\ IdleMerge
    /\ IdleDoc
    /\ IdleGroup
    /\ IdleLevel
    /\ IdleCli

ConvertTable ==
    /\ pc = "convert_table"
    /\ table_block' = convert_table(table_arg)
    /\ pc' = "table_converted"
    /\ UNCHANGED <<table_arg, cell_arg, cell_content, cleanVars, headingVars,
                   mergeVars, docVars, groupVars, levelVars, cliVars>>

NextTable == ConvertTable

SpecTable == InitTable /\ [][NextTable]_vars

(***************************************************************************)
(* _process_cell_content applied to a cell.                                *)
(***************************************************************************)
CellTexts == {<<>>, <<" ">>, <<"t">>, <<"-", " ", "t">>}

Cells ==
    UNION {[1..k -> {CellParagraph(t, n) : t \in CellTexts, n \in BOOLEAN}] :
           k \in 1..MaxCellParagraphs}

InitCell ==
    /\ pc = "process_cell"
    /\ cell_arg \in Cells
    /\ cell_content = Idle
    /\ table_arg = Idle
    /\ table_block = Idle
    /\ IdleClean
    /\ IdleHeading
    /\ IdleMerge
    /\ IdleDoc
    /\ IdleGroup
    /\ IdleLevel
    /\ IdleCli

ProcessCellContent ==
    /\ pc = "process_cell"
    /\ cell_content' = process_cell_content(cell_arg)
    /\ pc' = "cell_processed"
    /\ UNCHANGED <<cell_arg, table_arg, table_block, cleanVars, headingVars,
                   mergeVars, docVars, groupVars, levelVars, cliVars>>

NextCell == ProcessCellContent

SpecCell == InitCell /\ [][NextCell]_vars

(***************************************************************************)
(* _convert_document: the loop over the body, the merge, the images.       *)
(***************************************************************************)
BodyParagraph(t, st, n) == [kind |-> "p", text |-> t, style |-> st, numPr |-> n]

BodyTable(t) == [kind |-> "tbl", rows |-> t]

\* an element that is neither CT_P nor CT_Tbl (the body's sectPr), with its
\* lxml .text
BodyOther(t) == [kind |-> "other", text |-> t]

\* _extract_text_from_element: the element has .text; None gives ""
extract_text_from_element(element) ==
    IF element.text = None THEN <<>> ELSE element.text

\* "image" in rel.target_ref, the reference a sequence of its parts
in_target_ref(word, target_ref) == \E i \in 1..Len(target_ref) : target_ref[i] = word

\* rel.target_ref.split('/')[-1]
RECURSIVE after_last_slash(_)
after_last_slash(target_ref) ==
    IF \E i \in 1..Len(target_ref) : target_ref[i] = "/"
    THEN after_last_slash(Tail(target_ref))
    ELSE target_ref

NotConfiguredText == "Image description not available (Azure OpenAI not configured)"

ErrorText == "Error generating image description: "

\* ImageProcessor.describe_image: no client gives the fixed text; an exception
\* of the request is caught and gives the error text; else the response
describe_image(rel, configured) ==
    IF ~configured THEN NotConfiguredText
    ELSE IF rel.llm_invoke = "raises" THEN ErrorText
    ELSE rel.llm_invoke

\* the body of the loop of _convert_document: elems after the element
body_step(elems, element) ==
    IF element.kind = "p"
    THEN IF convert_paragraph(element) # None
         THEN Append(elems, convert_paragraph(element))
         ELSE elems
    ELSE IF element.kind = "tbl"
    THEN IF convert_table(element.rows) # None
         THEN Append(elems, convert_table(element.rows))
         ELSE elems
    ELSE IF strip(extract_text_from_element(element)) # <<>>
    THEN Append(elems, ParagraphBlock(strip(extract_text_from_element(element))))
    ELSE elems

\* one turn of: for element in doc.element.body
ConvertElement ==
    /\ pc = "convert"
    /\ idx <= Len(body)
    /\ elements' = body_step(elements, body[idx])
    /\ idx' = idx + 1
    /\ UNCHANGED <<pc, body, describe_images, llm_configured, rels, ridx,
                   image_elements, describe_calls, merge_result,
                   cleanVars, headingVars, tableVars, groupVars, levelVars, cliVars>>

\* elements = self._merge_consecutive_lists(elements), then the test of
\* self.describe_images and self.image_processor
MergeElements ==
    /\ pc = "convert"
    /\ idx > Len(body)
    /\ elements' = merge_consecutive_lists(elements)
    /\ pc' = IF describe_images THEN "images" ELSE "done"
    /\ UNCHANGED <<docVars, merge_result, cleanVars, headingVars, tableVars, groupVars, levelVars, cliVars>>

\* one turn of: for rel in doc.part.rels.values(), inside the try of
\* _process_images.  rel.target_part raises for a relation whose target is
\* external (a linked picture); the except around the loop ends the loop.
ProcessImageRel ==
    /\ pc = "images"
    /\ ridx <= Len(rels)
    /\ LET rel == rels[ridx]
       IN  IF ~in_target_ref("image", rel.target_ref)
           THEN /\ ridx' = ridx + 1
                /\ UNCHANGED <<image_elements, describe_calls>>
           ELSE IF rel.is_external
           THEN /\ ridx' = Len(rels) + 1
                /\ UNCHANGED <<image_elements, describe_calls>>
           ELSE /\ ridx' = ridx + 1
                /\ describe_calls' = Append(describe_calls, ridx)
                /\ image_elements' =
                      Append(image_elements,
                             ImageBlock(after_last_slash(rel.target_ref),
                                        describe_image(rel, llm_configured)))
    /\ UNCHANGED <<pc, body, idx, describe_images, llm_configured, rels,
                   mergeVars, cleanVars, headingVars, tableVars, groupVars, levelVars, cliVars>>

\* elements.extend(image_elements); return elements
ExtendWithImages ==
    /\ pc = "images"
    /\ ridx > Len(rels)
    /\ elements' = elements \o image_elements
    /\ pc' = "done"
    /\ UNCHANGED <<docVars, merge_result, cleanVars, headingVars, tableVars, groupVars, levelVars, cliVars>>

NextDocument ==
    ConvertElement \/ MergeElements \/ ProcessImageRel \/ ExtendWithImages

\* paragraph texts: empty, blank, plain, a lone marker, a marker and a word
ParagraphTexts == {<<>>, <<" ">>, <<" ", "t", " ">>, <<"-">>, <<"-", " ", "t">>}

BodyParagraphs ==
    {BodyParagraph(t, st, n) : t \in ParagraphTexts,
                               st \in {NormalWord, HeadingWord \o <<" ", "2">>},
                               n \in BOOLEAN}

HeaderOnlyEmpty == <<<<<<CellParagraph(<<>>, FALSE)>>>>>>

SmallTable ==
    <<<<<<CellParagraph(<<"A">>, FALSE)>>>>, <<<<CellParagraph(<<"t">>, FALSE)>>>>>>

BodyElements ==
    BodyParagraphs
    \cup {BodyTable(HeaderOnlyEmpty), BodyTable(SmallTable)}
    \cup {BodyOther(None), BodyOther(<<" ", "t">>)}

EmbeddedImage(n, outcome) ==
    [target_ref |-> <<"media", "/", "image", n, ".png">>,
     is_external |-> FALSE, llm_invoke |-> outcome]

LinkedImage(n) ==
    [target_ref |-> <<"http:", "/", "/", "host", "/", "image", n, ".png">>,
     is_external |-> TRUE, llm_invoke |-> "raises"]

StylesPart ==
    [target_ref |-> <<"styles.xml">>, is_external |-> FALSE, llm_invoke |-> "raises"]

StartDocument ==
    /\ pc = "convert"
    /\ idx = 1
    /\ elements = <<>>
    /\ ridx = 1
    /\ image_elements = <<>>
    /\ describe_calls = <<>>
    /\ merge_result = Idle
    /\ IdleClean
    /\ IdleHeading
    /\ IdleTable
    /\ IdleGroup
    /\ IdleLevel
    /\ IdleCli

\* every body, with images off or with one embedded image
InitDocument ==
    /\ StartDocument
    /\ body \in SeqsUpTo(BodyElements, MaxBody)
    /\ \/ describe_images = FALSE /\ rels = <<>> /\ llm_configured = FALSE
       \/ /\ describe_images = TRUE
          /\ rels = <<EmbeddedImage("1", "a chart")>>
          /\ llm_configured = TRUE

SpecDocument == InitDocument /\ [][NextDocument]_vars

RelSamples ==
    {EmbeddedImage("1", "a chart"), EmbeddedImage("2", "raises"), LinkedImage("3"),
     StylesPart}

\* every sequence of relations, images on, over a few bodies
InitImages ==
    /\ StartDocument
    /\ body \in {<<>>, <<BodyParagraph(<<"t">>, NormalWord, FALSE)>>}
    /\ describe_images = TRUE
    /\ llm_configured \in BOOLEAN
    /\ rels \in SeqsUpTo(RelSamples, MaxRels)

SpecImages == InitImages /\ [][NextDocument]_vars

(***************************************************************************)
(* ListProcessor._convert_list_group: the loop over the paragraphs of a    *)
(* run, then the unwinding of the stack.                                   *)
(***************************************************************************)
\* the text of the item of paragraph i
item_text(i) == ListProcessor_clean_list_text(strip(paragraphs[i].text))

\* one turn of: for para in paragraphs
ConvertListParagraph ==
    /\ pc = "group"
    /\ pidx <= Len(paragraphs)
    /\ LET lvl == get_list_level(paragraphs[pidx])
           here == [items |-> items, level_stack |-> level_stack,
                    current_level |-> current_level]
       IN  IF item_text(pidx) = <<>>
           THEN UNCHANGED <<lists, items, current_level, level_stack>>
           ELSE IF lvl > current_level
           THEN IF lists[items] # <<>>
                THEN LET last == Last(lists[items])
                         withChildren ==
                             IF last \in DOMAIN lists THEN lists
                             ELSE lists @@ (last :> <<>>)
                     IN  /\ level_stack' = Append(level_stack, items)
                         /\ items' = last
                         /\ current_level' = lvl
                         /\ lists' = [withChildren EXCEPT ![last] = Append(@, pidx)]
                ELSE /\ current_level' = lvl
                     /\ lists' = [lists EXCEPT ![items] = Append(@, pidx)]
                     /\ UNCHANGED <<items, level_stack>>
           ELSE LET there == IF lvl < current_level THEN pop_levels(here, lvl) ELSE here
                IN  /\ items' = there.items
                    /\ level_stack' = there.level_stack
                    /\ current_level' = there.current_level
                    /\ lists' = [lists EXCEPT ![there.items] = Append(@, pidx)]
    /\ pidx' = pidx + 1
    /\ UNCHANGED <<pc, paragraphs, cleanVars, headingVars, mergeVars, tableVars,
                   docVars, levelVars, cliVars>>

\* a mutant of UnwindAndReturn: the list that items refers to at the end of
\* the loop is returned, the stack is not unwound
UnwindAndReturn_without_unwinding ==
    /\ pc = "group"
    /\ pidx > Len(paragraphs)
    /\ level_stack' = <<>>
    /\ pc' = "group_done"
    /\ UNCHANGED <<paragraphs, pidx, lists, items, current_level, cleanVars,
                   headingVars, mergeVars, tableVars, docVars, levelVars, cliVars>>

\* while level_stack: items = level_stack.pop(); return the list block
UnwindAndReturn ==
    /\ pc = "group"
    /\ pidx > Len(paragraphs)
    /\ items' = IF level_stack # <<>> THEN level_stack[1] ELSE items
    /\ level_stack' = <<>>
    /\ pc' = "group_done"
    /\ UNCHANGED <<paragraphs, pidx, lists, current_level, cleanVars, headingVars,
                   mergeVars, tableVars, docVars, levelVars, cliVars>>

NextGroup == ConvertListParagraph \/ UnwindAndReturn

ListParagraph(t, n, l) ==
    [text |-> t, style |-> NormalWord, numPr |-> n, ilvl |-> l]

\* numbered items of every level; a numbered item that is only a marker; an
\* indented dash item without numbering; an indented item whose numbering has
\* no ilvl
GroupParagraphs ==
    {ListParagraph(<<"t">>, TRUE, [val |-> l]) : l \in 0..MaxIlvl}
    \cup {ListParagraph(<<"-">>, TRUE, [val |-> 1]),
          ListParagraph(<<" ", " ", " ", " ", "-", " ", "t">>, FALSE, None),
          ListParagraph(<<" ", " ", " ", " ", "t">>, TRUE, None)}

InitGroup ==
    /\ pc = "group"
    /\ paragraphs \in SeqsUpTo(GroupParagraphs, MaxGroup)
    /\ pidx = 1
    /\ lists = (0 :> <<>>)
    /\ items = 0
    /\ current_level = 0
    /\ level_stack = <<>>
    /\ IdleClean
    /\ IdleHeading
    /\ IdleMerge
    /\ IdleTable
    /\ IdleDoc
    /\ IdleLevel
    /\ IdleCli

SpecGroup == InitGroup /\ [][NextGroup]_vars

(***************************************************************************)
(* main of cli.py run by click on one command line.                        *)
(***************************************************************************)
\* click.Path(exists=True) converts INPUT_FILE before main is called: a path
\* that does not exist is a click.BadParameter raised outside main, which
\* click reports as a usage error and exits with UsageError.exit_code, 2
ClickConvertsArguments ==
    /\ pc = "click"
    /\ IF argv.input_file.exists
       THEN /\ pc' = "main"
            /\ UNCHANGED <<exit_code, err_stream>>
       ELSE /\ pc' = "exited"
            /\ exit_code' = [val |-> 2]
            /\ err_stream' = Append(err_stream, UsageEcho("Path does not exist"))
    /\ UNCHANGED <<argv, environ, raising, converter, out_stream, cleanVars,
                   headingVars, mergeVars, tableVars, docVars, groupVars,
                   levelVars>>

\* main, from try: to the construction of the converter
ValidateAndConstruct ==
    /\ pc = "main"
    /\ IF lower(argv.input_file.suffix) # DocxSuffix
       THEN \* raise click.BadParameter, caught by except Exception
            /\ err_stream' =
                   Append(err_stream, ErrorEcho("Input file must be a .docx file"))
            /\ exit_code' = [val |-> 1]
            /\ pc' = "exited"
            /\ UNCHANGED converter
       ELSE /\ converter' =
                   [output_file |->
                        IF argv.output_file = None
                        THEN with_suffix(argv.input_file, YamlSuffix)
                        ELSE argv.output_file,
                    describe_images |->
                        argv.describe_images /\ AzureVariables \subseteq environ]
            /\ pc' = "convert_file"
            /\ UNCHANGED <<exit_code, err_stream>>
    /\ UNCHANGED <<argv, environ, raising, out_stream, cleanVars, headingVars,
                   mergeVars, tableVars, docVars, groupVars, levelVars>>

\* main, from converter.convert_file to the end
ConvertAndReport ==
    /\ pc = "convert_file"
    /\ LET e == convert_file(raising)
       IN  IF e # None
           THEN /\ err_stream' = Append(err_stream, ErrorEcho(e.exception))
                /\ exit_code' = [val |-> 1]
                /\ UNCHANGED out_stream
           ELSE /\ out_stream' =
                       out_stream \o <<"Conversion completed successfully!",
                                       "Input", "Output">>
                       \o (IF converter.describe_images
                           THEN <<"Image descriptions included">> ELSE <<>>)
                /\ exit_code' = [val |-> 0]
                /\ UNCHANGED err_stream
    /\ pc' = "exited"
    /\ UNCHANGED <<argv, environ, raising, converter, cleanVars, headingVars,
                   mergeVars, tableVars, docVars, groupVars, levelVars>>

NextCli == ClickConvertsArguments \/ ValidateAndConstruct \/ ConvertAndReport

Suffixes == {DocxSuffix, <<".", "D", "O", "C", "X">>, <<".", "d", "o", "c">>,
             YamlSuffix, <<>>}

InputFiles == [exists : BOOLEAN, suffix : Suffixes]

CommandLines ==
    [input_file : InputFiles,
     output_file : {None, [exists |-> FALSE, suffix |-> YamlSuffix]},
     describe_images : BOOLEAN]

InitCli ==
    /\ pc = "click"
    /\ argv \in CommandLines
    /\ environ \in SUBSET AzureVariables
    /\ raising \in [load : BOOLEAN, convert : BOOLEAN, write : BOOLEAN]
    /\ converter = None
    /\ exit_code = None
    /\ err_stream = <<>>
    /\ out_stream = <<>>
    /\ IdleClean
    /\ IdleHeading
    /\ IdleMerge
    /\ IdleTable
    /\ IdleDoc
    /\ IdleGroup
    /\ IdleLevel

SpecCli == InitCli /\ [][NextCli]_vars

(***************************************************************************)
(* _convert_document on bodies of three elements, and on one paragraph     *)
(* that begins with any short marker.                                      *)
(***************************************************************************)
\* two list paragraphs, a plain and a heading paragraph, an empty paragraph,
\* a table that yields no block and one that yields one, the sectPr
RunElements ==
    {BodyParagraph(<<"-", " ", "a">>, NormalWord, FALSE),
     BodyParagraph(<<"b">>, NormalWord, TRUE),
     BodyParagraph(<<"t">>, NormalWord, FALSE),
     BodyParagraph(<<"t">>, HeadingWord \o <<" ", "2">>, FALSE),
     BodyParagraph(<<>>, NormalWord, FALSE),
     BodyTable(HeaderOnlyEmpty),
     BodyTable(SmallTable),
     BodyOther(None)}

ImagesOffOrOne ==
    \/ describe_images = FALSE /\ rels = <<>> /\ llm_configured = FALSE
    \/ /\ describe_images = TRUE
       /\ rels = <<EmbeddedImage("1", "a chart")>>
       /\ llm_configured = TRUE

InitRuns ==
    /\ StartDocument
    /\ body \in SeqsUpTo(RunElements, MaxRunBody)
    /\ ImagesOffOrOne

SpecRuns == InitRuns /\ [][NextDocument]_vars

\* one character of each kind of marker and of what may follow it
MarkerAlphabet == {"U+25E6", "-", "+", "1", "6", "a", "i", ".", ")", " ", "t"}

InitMarkers ==
    /\ StartDocument
    /\ \E t \in SeqsUpTo(MarkerAlphabet, MaxMarkerLen), n \in BOOLEAN :
           body = <<BodyParagraph(t, NormalWord, n)>>
    /\ ImagesOffOrOne

SpecMarkers == InitMarkers /\ [][NextDocument]_vars

(***************************************************************************)
(* _get_list_level applied to a list paragraph.                            *)
(***************************************************************************)
GetListLevel ==
    /\ pc = "get_list_level"
    /\ list_level' = get_list_level(level_arg)
    /\ pc' = "level_returned"
    /\ UNCHANGED <<level_arg, cleanVars, headingVars, mergeVars, tableVars,
                   docVars, groupVars, cliVars>>

NextLevel == GetListLevel

\* n spaces
Spaces(n) == [i \in 1..n |-> " "]

\* the paragraphs _group_list_items puts in a group: indented by up to
\* MaxIndent spaces, with or without a marker, with numbering and an ilvl,
\* with numbering and no ilvl, or without numbering
LevelParagraphs ==
    {p \in {ListParagraph(Spaces(n) \o t, numbered, l) :
                n \in 0..MaxIndent,
                t \in {<<"t">>, <<"-", " ", "t">>},
                numbered \in BOOLEAN,
                l \in {None} \cup {[val |-> k] : k \in 0..MaxIlvl}} :
        /\ ListProcessor_is_list_paragraph(p)
        /\ ~p.numPr => p.ilvl = None}

InitLevel ==
    /\ pc = "get_list_level"
    /\ level_arg \in LevelParagraphs
    /\ list_level = 0
    /\ IdleClean
    /\ IdleHeading
    /\ IdleMerge
    /\ IdleTable
    /\ IdleDoc
    /\ IdleGroup
    /\ IdleCli

SpecLevel == InitLevel /\ [][NextLevel]_vars

(***************************************************************************)
(* Heading levels.                                                         *)
(***************************************************************************)
\* [+-]?\d+(_\d+)* : what a token that is an integer looks like
LooksLikeInteger(tok) ==
    LET b == IF tok # <<>> /\ Head(tok) \in {"+", "-"} THEN Tail(tok) ELSE tok
    IN  /\ b # <<>>
        /\ \A i \in 1..Len(b) :
              \/ b[i] \in DigitClass
              \/ /\ b[i] = "_"
                 /\ 1 < i
                 /\ i < Len(b)
                 /\ b[i - 1] \in DigitClass
                 /\ b[i + 1] \in DigitClass

LastToken(name) == split(name)[Len(split(name))]

\* C3: "Heading k" (k a positive integer) gives level k; a style name with no
\* token, or whose last token is not an integer, gives level 1
C3_HeadingLevel ==
    pc = "returned" =>
        /\ \A k \in 1..MaxHeadingNumber :
              style_name = HeadingWord \o <<" ">> \o Decimal(k) => level = k
        /\ (split(style_name) = <<>> \/ ~LooksLikeInteger(LastToken(style_name)))
              => level = 1

C3_Witness ==
    /\ pc = "returned"
    /\ style_name = HeadingWord \o <<" ", "1", "2">>
    /\ level = 12

(***************************************************************************)
(* Marker stripping.                                                       *)
(***************************************************************************)
\* whether one of the four marker patterns matches at the start of t
BeginsWithMarker(t) ==
    \/ SubBullet(t) # t
    \/ SubRun(t, DigitClass) # t
    \/ SubLetter(t) # t
    \/ SubRun(t, RomanClass) # t

\* t without the first marker pattern that matches, tried in the order bullet,
\* number, letter, roman numeral; t when none matches
FirstMarkerRemoved(t) ==
    IF SubBullet(t) # t THEN SubBullet(t)
    ELSE IF SubRun(t, DigitClass) # t THEN SubRun(t, DigitClass)
    ELSE IF SubLetter(t) # t THEN SubLetter(t)
    ELSE SubRun(t, RomanClass)

\* C6: _clean_list_text removes only the first matching marker and the
\* whitespace after it, so a marker that follows the first stays in the text
C6_OnlyFirstMarkerRemoved ==
    pc \in {"clean_again", "cleaned_twice"} => cleaned = strip(FirstMarkerRemoved(text))

\* C7: for a text that begins with a marker, stripping the stripped text again
\* changes nothing
C7_StripIdempotent ==
    (pc = "cleaned_twice" /\ BeginsWithMarker(text)) => recleaned = cleaned

(***************************************************************************)
(* Merging adjacent lists.                                                 *)
(***************************************************************************)
IsList(b) == b.type = "list"

ListMark == [type |-> "list"]

\* a sequence of blocks with every List block replaced by a mark
Shape(s) == [i \in 1..Len(s) |-> IF IsList(s[i]) THEN ListMark ELSE s[i]]

\* a shape with every run of adjacent marks replaced by one mark
RECURSIVE Collapse(_)
Collapse(s) ==
    IF Len(s) <= 1 THEN s
    ELSE IF s[1] = ListMark /\ s[2] = ListMark THEN Collapse(Tail(s))
    ELSE <<s[1]>> \o Collapse(Tail(s))

\* the items of the lists and the other blocks, in order
RECURSIVE Flat(_)
Flat(s) ==
    IF s = <<>> THEN <<>>
    ELSE IF IsList(Head(s))
    THEN [i \in 1..Len(Head(s).items) |-> [item |-> Head(s).items[i]]] \o Flat(Tail(s))
    ELSE <<[block |-> Head(s)]>> \o Flat(Tail(s))

\* C1: the result is the input with every maximal run of adjacent List blocks
\* replaced by one List block holding the items of the run in order; every
\* other block is kept in place, and no two List blocks are adjacent
C1_MergeRuns ==
    pc = "merged" =>
        /\ Shape(merge_result) = Collapse(Shape(elements))
        /\ Flat(merge_result) = Flat(elements)
        /\ \A i \in 1..(Len(merge_result) - 1) :
              ~(IsList(merge_result[i]) /\ IsList(merge_result[i + 1]))

C1_Witness ==
    /\ pc = "merged"
    /\ elements = <<ListBlock(<<ItemA>>), ListBlock(<<ItemB>>),
                    ParagraphBlock(<<"t">>), ListBlock(<<ItemA, ItemB>>)>>
    /\ merge_result = <<ListBlock(<<ItemA, ItemB>>), ParagraphBlock(<<"t">>),
                        ListBlock(<<ItemA, ItemB>>)>>

(***************************************************************************)
(* The texts of the output, and empty paragraphs.                          *)
(***************************************************************************)
NonEmptyTrimmed(t) == t # <<>> /\ strip(t) = t

\* C4: in the output of _convert_document every heading text, paragraph text
\* and list item text is non-empty and has no space at either end
C4_TextsNonEmptyTrimmed ==
    pc = "done" =>
        \A i \in 1..Len(elements) :
            /\ elements[i].type \in {"heading", "paragraph"}
                  => NonEmptyTrimmed(elements[i].text)
            /\ elements[i].type = "list"
                  => \A j \in 1..Len(elements[i].items) :
                        NonEmptyTrimmed(elements[i].items[j].text)

IsBlankParagraph(element) == element.kind = "p" /\ strip(element.text) = <<>>

IsNotBlankParagraph(element) == ~IsBlankParagraph(element)

\* the blocks of a body: the loop, then the merge
RECURSIVE BodyBlocks(_, _)
BodyBlocks(b, elems) ==
    IF b = <<>> THEN merge_consecutive_lists(elems)
    ELSE BodyBlocks(Tail(b), body_step(elems, Head(b)))

\* C5: a body paragraph whose text is empty or only spaces gives no block,
\* whatever its style and numbering: _convert_paragraph returns None for it,
\* and the output is the output for the body without these paragraphs
C5_BlankParagraphDropped ==
    /\ \A i \in 1..Len(body) :
          IsBlankParagraph(body[i]) => convert_paragraph(body[i]) = None
    /\ pc = "done" =>
          elements = BodyBlocks(SelectSeq(body, IsNotBlankParagraph), <<>>)
                         \o image_elements

C5_Witness ==
    /\ pc = "done"
    /\ body = <<BodyParagraph(<<" ">>, HeadingWord \o <<" ", "2">>, TRUE),
                BodyParagraph(<<"-", " ", "t">>, NormalWord, FALSE)>>
    /\ elements = <<ListBlock(<<[text |-> <<"t">>]>>)>>

(***************************************************************************)
(* Tables and cells.                                                       *)
(***************************************************************************)
Min(a, b) == IF a <= b THEN a ELSE b

\* the positions of a row that have both a cell and a header
Keyed(cells, headers) == 1..Min(Len(cells), Len(headers))

\* a data row is retained when the content of one of its keyed cells is not empty
RowRetained(cells) ==
    \E i \in Keyed(cells, table_headers(table_arg)) :
        TruthyValue(process_cell_content(cells[i]))

\* C8: with a header row that is not all empty, every retained data row maps
\* header[i] to the content of cell i for every position i that has a cell and
\* a header, and has no other key
C8_RowKeyedByPosition ==
    (pc = "table_converted" /\ table_arg # <<>>
        /\ \E i \in 1..Len(table_arg[1]) : Truthy(table_headers(table_arg)[i]))
    => LET headers == table_headers(table_arg)
           retained == SelectSeq(Tail(table_arg), RowRetained)
       IN  /\ table_block # None
           /\ Len(table_block.rows) = Len(retained)
           /\ \A k \in 1..Len(retained) :
                 /\ DOMAIN table_block.rows[k] =
                       {headers[i] : i \in Keyed(retained[k], headers)}
                 /\ \A i \in Keyed(retained[k], headers) :
                       table_block.rows[k][headers[i]] =
                           process_cell_content(retained[k][i])

HasText(para) == strip(para.text) # <<>>

\* C9: a cell with exactly one non-empty paragraph gives the trimmed string; a
\* sequence of blocks, one for each non-empty paragraph, is given only by a
\* cell with more than one non-empty paragraph
C9_CellStringOrBlocks ==
    pc = "cell_processed" =>
        LET effective == SelectSeq(cell_arg, HasText)
        IN  /\ Len(effective) = 1 => cell_content = [str |-> strip(cell_text(cell_arg))]
            /\ "blocks" \in DOMAIN cell_content
                  => /\ Len(effective) > 1
                     /\ Len(cell_content.blocks) = Len(effective)

(***************************************************************************)
(* Image descriptions.                                                     *)
(***************************************************************************)
\* the positions of the image relations, in order
RECURSIVE ImageRels(_)
ImageRels(n) ==
    IF n = 0 THEN <<>>
    ELSE IF in_target_ref("image", rels[n].target_ref)
    THEN Append(ImageRels(n - 1), n)
    ELSE ImageRels(n - 1)

\* C10: with image description on, describe_image is called once for each
\* image relation, in order; whatever fails for one image, every image
\* relation has its own image block after the unchanged blocks of the body
C10_EveryImageDescribedOnce ==
    (pc = "done" /\ describe_images) =>
        LET images == ImageRels(Len(rels))
        IN  /\ describe_calls = images
            /\ Len(image_elements) = Len(images)
            /\ \A k \in 1..Len(images) :
                  /\ image_elements[k].type = "image"
                  /\ image_elements[k].name = after_last_slash(rels[images[k]].target_ref)
            /\ elements = BodyBlocks(body, <<>>) \o image_elements

(***************************************************************************)
(* The tree of a list run.                                                 *)
(***************************************************************************)
Level(i) == get_list_level(paragraphs[i])

\* the run starts at depth 0, no item is more than one level below the item
\* before it, and no cleaned text is empty
RegularRun ==
    /\ paragraphs # <<>>
    /\ Level(1) = 0
    /\ \A i \in 2..Len(paragraphs) : Level(i) <= Level(i - 1) + 1
    /\ \A i \in 1..Len(paragraphs) : item_text(i) # <<>>

\* the nearest item before i that is one level above it
NearestAbove(i) ==
    CHOOSE j \in 1..(i - 1) :
        /\ Level(j) = Level(i) - 1
        /\ \A k \in (j + 1)..(i - 1) : Level(k) # Level(i) - 1

\* the items of the list l that is expected: the items of depth 0 for the
\* first list, the items whose nearest item above is l for the others
ExpectedItems(l) ==
    {i \in 1..Len(paragraphs) :
        IF l = 0 THEN Level(i) = 0 ELSE Level(i) > 0 /\ NearestAbove(i) = l}

IsIncreasing(s) == \A i \in 1..(Len(s) - 1) : s[i] < s[i + 1]

Elements(s) == {s[i] : i \in 1..Len(s)}

\* C2: for a run that starts at depth 0, never deepens by more than one level
\* and has no empty text, the block returned has the items of depth 0 at the
\* top and every item of depth d > 0 among the children of the nearest item of
\* depth d - 1 before it, in the order of the run
C2_RegularRunTree ==
    (pc = "group_done" /\ RegularRun) =>
        /\ items = 0
        /\ \A l \in DOMAIN lists :
              /\ IsIncreasing(lists[l])
              /\ Elements(lists[l]) = ExpectedItems(l)
        /\ \A i \in 1..Len(paragraphs) :
              i \notin DOMAIN lists => ExpectedItems(i) = {}

C2_Witness ==
    /\ pc = "group_done"
    /\ RegularRun
    /\ Len(paragraphs) = 4
    /\ Level(1) = 0 /\ Level(2) = 1 /\ Level(3) = 1 /\ Level(4) = 0
    /\ items = 0
    /\ lists = (0 :> <<1, 4>> @@ 1 :> <<2, 3>>)


(***************************************************************************)
(* The exit code of the command line.                                      *)
(***************************************************************************)
\* the suffix check of main, or a step of convert_file, raises
RaisesInMain ==
    \/ lower(argv.input_file.suffix) # DocxSuffix
    \/ raising.load
    \/ raising.convert
    \/ raising.write

\* C11, as stated: the command exits with code 1 and a message on the error
\* stream whenever input validation (the path must exist and end in .docx),
\* loading, conversion or writing raises, and with code 0 exactly when none
\* of them raises.
C11_ExitOneOnAnyFailure ==
    pc = "exited" =>
        LET raises == ~argv.input_file.exists \/ RaisesInMain
        IN  /\ raises => exit_code = [val |-> 1] /\ err_stream # <<>>
            /\ exit_code = [val |-> 0] <=> ~raises

\* C11, amended: a path that does not exist is rejected by click before main
\* runs, with exit code 2 and a usage message on the error stream; for a path
\* that exists the command exits with code 1 and a message on the error
\* stream whenever the suffix check, loading, conversion or writing raises,
\* and with code 0 and nothing on the error stream exactly when none does.
C11_ExitCode ==
    pc = "exited" =>
        IF ~argv.input_file.exists
        THEN exit_code = [val |-> 2] /\ err_stream # <<>> /\ out_stream = <<>>
        ELSE /\ RaisesInMain =>
                    exit_code = [val |-> 1] /\ err_stream # <<>> /\ out_stream = <<>>
             /\ ~RaisesInMain =>
                    exit_code = [val |-> 0] /\ err_stream = <<>> /\ out_stream # <<>>

\* writing the output raised after loading and conversion went through
C11_Witness ==
    /\ pc = "exited"
    /\ argv.input_file.exists
    /\ lower(argv.input_file.suffix) = DocxSuffix
    /\ raising = [load |-> FALSE, convert |-> FALSE, write |-> TRUE]
    /\ exit_code = [val |-> 1]
    /\ err_stream = <<ErrorEcho("_write_yaml")>>

(***************************************************************************)
(* List blocks and the runs of list paragraphs in the body.               *)
(***************************************************************************)
\* the blocks _convert_document returns, without the image blocks at the end
OutputBlocks == SubSeq(elements, 1, Len(elements) - Len(image_elements))

\* the body element is a paragraph converted to a list block
ListClassified(e) ==
    /\ e.kind = "p"
    /\ convert_paragraph(e) # None
    /\ convert_paragraph(e).type = "list"

\* the items of each maximal run of adjacent list paragraphs of the body b,
\* in order: any other body element ends the run
RECURSIVE ListRuns(_, _, _)
ListRuns(b, runs, run) ==
    LET closed == IF run # <<>> THEN Append(runs, run) ELSE runs
    IN  IF b = <<>> THEN closed
        ELSE IF ListClassified(Head(b))
        THEN ListRuns(Tail(b), runs, run \o convert_paragraph(Head(b)).items)
        ELSE ListRuns(Tail(b), closed, <<>>)

\* C12: the list blocks of the output of _convert_document are, in order, one
\* per maximal run of adjacent list paragraphs of the body, each with the
\* items of its run: list paragraphs separated by any other body element (an
\* empty paragraph and a table that yields no block included) are never in
\* the same list block.
C12_ListBlockPerRun ==
    pc = "done" =>
        LET runs == ListRuns(body, <<>>, <<>>)
        IN  SelectSeq(OutputBlocks, IsList)
                = [k \in 1..Len(runs) |-> ListBlock(runs[k])]

(***************************************************************************)
(* Markers the converter takes for a list item.                            *)
(***************************************************************************)
\* C13: a paragraph that is no heading and has no numbering, whose trimmed
\* text begins with a marker (a bullet glyph, '-', '*', '+', digits, a letter
\* or roman numeral letters followed by '.' or ')'), is emitted in a list
\* block and never as a paragraph block.
C13_MarkerMakesListItem ==
    (/\ pc = "done"
     /\ Len(body) = 1
     /\ body[1].kind = "p"
     /\ ~startswith(body[1].style, HeadingWord)
     /\ ~body[1].numPr
     /\ BeginsWithMarker(strip(body[1].text)))
        => /\ OutputBlocks # <<>>
           /\ \A k \in 1..Len(OutputBlocks) : IsList(OutputBlocks[k])

(***************************************************************************)
(* The tree of a run of any depths.                                        *)
(***************************************************************************)
\* the items under the list l from its k-th item on, each item followed by
\* its children
RECURSIVE PreorderFrom(_, _)
PreorderFrom(l, k) ==
    IF k > Len(lists[l]) THEN <<>>
    ELSE <<lists[l][k]>>
         \o (IF lists[l][k] \in DOMAIN lists THEN PreorderFrom(lists[l][k], 1)
             ELSE <<>>)
         \o PreorderFrom(l, k + 1)

\* the first n paragraphs of the run whose cleaned text is not empty, in order
NonEmptyItems(n) ==
    SelectSeq([i \in 1..n |-> i], LAMBDA i : item_text(i) # <<>>)

InGroup == pc \in {"group", "group_done"}

\* the tree built from the paragraphs before pidx holds, in pre-order, exactly
\* those of them with a non-empty cleaned text, in the order of the run; every
\* children list hangs under an item of the tree; the list returned is the root
TreeHoldsItemsInOrder ==
    InGroup =>
        /\ PreorderFrom(0, 1) = NonEmptyItems(pidx - 1)
        /\ DOMAIN lists \ {0} \subseteq Elements(PreorderFrom(0, 1))
        /\ \A l \in DOMAIN lists : l # 0 => lists[l] # <<>>
        /\ pc = "group_done" => items = 0 /\ pidx = Len(paragraphs) + 1

\* a step of the loop on an item whose cleaned text is empty
SkipsEmptyItem ==
    (pc = "group" /\ pidx <= Len(paragraphs) /\ item_text(pidx) = <<>>)
        => UNCHANGED <<lists, items, current_level, level_stack>>

\* C14: for a run of any depths the tree returned holds each item with a
\* non-empty cleaned text exactly once and nothing else, its pre-order is the
\* order of the run, an item with an empty cleaned text changes neither the
\* tree nor current_level nor the stack, and the list returned after the
\* unwinding is the root list.
C14_TreeInInputOrder == [](TreeHoldsItemsInOrder) /\ [][SkipsEmptyItem]_vars

\* a run 0, 1, a lone marker, 2: the marker is skipped, two lists are open at
\* the end and the root is returned
C14_Witness ==
    /\ pc = "group_done"
    /\ Len(paragraphs) = 4
    /\ Level(1) = 0 /\ Level(2) = 1 /\ Level(4) = 2
    /\ item_text(3) = <<>>
    /\ items = 0
    /\ lists = (0 :> <<1>> @@ 1 :> <<2>> @@ 2 :> <<4>>)

\* the list that holds the item i
ListOf(i) == CHOOSE l \in DOMAIN lists : i \in Elements(lists[l])

\* C15: in the tree of a run of any depths, every child has a reported depth
\* greater than the reported depth of its parent, so an item of reported
\* depth 0 is at the top level.
C15_ChildDeeperThanParent ==
    InGroup =>
        /\ \A l \in DOMAIN lists \ {0} :
              \A k \in 1..Len(lists[l]) : Level(lists[l][k]) > Level(l)
        /\ \A i \in Elements(PreorderFrom(0, 1)) : Level(i) = 0 => ListOf(i) = 0

\* a run that starts at depth 1, goes to 2, drops to 0 and jumps to 2
C15_Witness ==
    /\ pc = "group_done"
    /\ Len(paragraphs) = 4
    /\ Level(1) = 1 /\ Level(2) = 2 /\ Level(3) = 0 /\ Level(4) = 2
    /\ \A i \in 1..4 : item_text(i) # <<>>
    /\ lists = (0 :> <<1, 3>> @@ 1 :> <<2>> @@ 3 :> <<4>>)

\* a step of the loop on an item whose depth is below current_level leaves
\* current_level at most that depth, which is what makes an item one level
\* deeper that comes next a child of this item, and equal to the number of
\* lists on the stack, the nesting level of the list it inserts into
DropReachesItemDepth ==
    (/\ pc = "group"
     /\ pidx <= Len(paragraphs)
     /\ item_text(pidx) # <<>>
     /\ Level(pidx) < current_level)
        => /\ current_level' <= Level(pidx)
           /\ current_level' = Len(level_stack')

\* C16: after an item whose depth d is below the current depth, the current
\* depth is at most d and is the nesting level of the insertion target, in
\* every run, so that an item of depth d + 1 that follows becomes its child.
C16_DropRestoresDepth == [][DropReachesItemDepth]_vars

\* C17: for a paragraph with a numbering property _get_list_level returns the
\* ilvl when there is one and 0 when there is none, whatever the leading
\* whitespace; without a numbering property it returns the number of leading
\* whitespace characters floor-divided by 4.
C17_ExplicitLevelOrZero ==
    pc = "level_returned" =>
        list_level =
            IF level_arg.numPr
            THEN IF level_arg.ilvl # None THEN level_arg.ilvl.val ELSE 0
            ELSE LeadingIn(level_arg.text, Whitespace) \div 4

\* the number of lists above the list l in the tree
RECURSIVE NestingLevel(_)
NestingLevel(l) == IF l = 0 THEN 0 ELSE 1 + NestingLevel(ListOf(l))

\* C18: in every state of _convert_list_group current_level is at least the
\* length of level_stack, the stack holds the lists above the insertion
\* target from the root down, so the target is at nesting level
\* len(level_stack), and every item is at a nesting level of at most its
\* reported depth.
C18_StackWithinLevel ==
    InGroup =>
        /\ current_level >= Len(level_stack)
        /\ NestingLevel(items) = Len(level_stack)
        /\ \A k \in 1..Len(level_stack) : NestingLevel(level_stack[k]) = k - 1
        /\ \A i \in Elements(PreorderFrom(0, 1)) : NestingLevel(ListOf(i)) <= Level(i)

\* a run 0, 2, 2 before its end: one list on the stack, current_level 2, the
\* items of depth 2 at nesting level 1
C18_Witness ==
    /\ pc = "group"
    /\ pidx = 4
    /\ Level(1) = 0 /\ Level(2) = 2 /\ Level(3) = 2
    /\ current_level = 2
    /\ level_stack = <<0>>
    /\ items = 1
    /\ lists = (0 :> <<1>> @@ 1 :> <<2, 3>>)

=============================================================================
